---------------------------- MODULE Spec2Model ----------------------------
(***************************************************************************)
(* A model of ircrobots' Server (src/ircrobots/server.py): the priority    *)
(* write queue and write loop, the wait_for registry resolved by           *)
(* _on_read_line, CAP negotiation (_cap_ls_done, _cap_ack) and the SASL    *)
(* flows (sasl_external, sasl_userpass).                                   *)
(*                                                                         *)
(* asyncio is cooperative: a coroutine runs without interruption until it  *)
(* awaits something that is not ready.  Every action below is one such     *)
(* uninterrupted stretch of code.                                          *)
(***************************************************************************)
EXTENDS Integers, Sequences, FiniteSets, TLC

(***************************************************************************)
(* Bounds of the model.                                                    *)
(***************************************************************************)
MaxSends   == 4   \* send() calls made by the application
MaxInbound == 3   \* lines the server sends over one connection
MaxWaits   == 3   \* futures created by wait_for over one connection
MaxChunk   == 3   \* lines one reader.read() may return

(***************************************************************************)
(* Lines.  A Line is its command and its parameters (irctokens.build).    *)
(***************************************************************************)
build(command, params) == [command |-> command, params |-> params]

\* " ".join(tokens)
RECURSIVE join(_)
join(tokens) ==
    IF tokens = <<>> THEN ""
    ELSE IF Len(tokens) = 1 THEN tokens[1]
    ELSE tokens[1] \o " " \o join(Tail(tokens))

\* SendPriority: an enumerated total order, DEFAULT the middle one.
HIGH    == 0
DEFAULT == 1
LOW     == 2
SendPriority == {HIGH, DEFAULT, LOW}

\* The batch size of the write loop (len(lines) < 5).
WRITE_BATCH == 5

SASL_USERPASS_MECHANISMS ==
    <<"SCRAM-SHA-512", "SCRAM-SHA-256", "SCRAM-SHA-1", "PLAIN">>

(***************************************************************************)
(* heapq, as asyncio.PriorityQueue uses it (_put = heappush, _get =        *)
(* heappop).  Positions are Python's (0-based); heap[p + 1] is heap[p].    *)
(* A queue entry is a PriorityLine with the number of the send() call that *)
(* made it (seq), which the program does not have: it only names the entry.*)
(***************************************************************************)
\* PriorityLine.__lt__: the ordering key is the priority only.
PriorityLineLt(a, b) == a.priority < b.priority

RECURSIVE _siftdown(_, _, _, _)
_siftdown(heap, newitem, startpos, pos) ==
    IF pos > startpos
    THEN LET parentpos == (pos - 1) \div 2
             parent    == heap[parentpos + 1]
         IN  IF PriorityLineLt(newitem, parent)
             THEN _siftdown([heap EXCEPT ![pos + 1] = parent],
                            newitem, startpos, parentpos)
             ELSE [heap EXCEPT ![pos + 1] = newitem]
    ELSE [heap EXCEPT ![pos + 1] = newitem]

RECURSIVE _siftup(_, _, _, _)
_siftup(heap, newitem, startpos, pos) ==
    LET endpos   == Len(heap)
        childpos == 2 * pos + 1
        rightpos == childpos + 1
    IN  IF childpos < endpos
        THEN LET c == IF rightpos < endpos
                         /\ ~PriorityLineLt(heap[childpos + 1], heap[rightpos + 1])
                      THEN rightpos ELSE childpos
             IN  _siftup([heap EXCEPT ![pos + 1] = heap[c + 1]],
                         newitem, startpos, c)
        ELSE _siftdown([heap EXCEPT ![pos + 1] = newitem], newitem, startpos, pos)

heappush(heap, item) == _siftdown(Append(heap, item), item, 0, Len(heap))

\* heappop: <<the item returned, the heap left>>
heappop(heap) ==
    LET lastelt == heap[Len(heap)]
        rest    == SubSeq(heap, 1, Len(heap) - 1)
    IN  IF rest # <<>>
        THEN <<rest[1], _siftup([rest EXCEPT ![1] = lastelt], lastelt, 0, 0)>>
        ELSE <<lastelt, rest>>

\* The while loop of _write_lines: <<lines taken, heap left>>
RECURSIVE TakeLines(_, _)
TakeLines(lines, heap) ==
    IF lines = <<>> \/ (Len(lines) < WRITE_BATCH /\ Len(heap) > 0)
    THEN LET got == heappop(heap)
         IN  TakeLines(Append(lines, got[1]), got[2])
    ELSE <<lines, heap>>

(***************************************************************************)
(* Response matchers (matching.py): Response(command, params, errors) and  *)
(* Numerics(numerics).  A parameter pattern is ParamAny or a Literal.      *)
(***************************************************************************)
ParamAny == [type |-> "any", value |-> ""]
Literal(v) == [type |-> "literal", value |-> v]
Response(command, params, errors) ==
    [kind |-> "Response", command |-> command, params |-> params, errors |-> errors]
Numerics(numerics) ==
    [kind |-> "Numerics", command |-> "", params |-> <<>>, errors |-> numerics]

ParamMatch(pattern, value) ==
    pattern.type = "any" \/ pattern.value = value

\* BaseResponse.match(line)
Match(response, line) ==
    IF response.kind = "Numerics"
    THEN line.command \in response.errors
    ELSE \/ /\ line.command = response.command
            /\ Len(line.params) >= Len(response.params)
            /\ \A i \in 1..Len(response.params) :
                   ParamMatch(response.params[i], line.params[i])
         \/ line.command \in response.errors

\* The matchers of the SASL flows.
AuthOrError  == Response("AUTHENTICATE", <<ParamAny>>, {"904", "907", "908"})
AuthOnly     == Response("AUTHENTICATE", <<ParamAny>>, {})
SaslNumerics == Numerics({"903", "904"})

(***************************************************************************)
(* What the server sends.  An item is a line with the Emit ircstates makes *)
(* of it (command "" when it makes none) and, for CAP LS, the value of the *)
(* sasl token (None when the token has no "=value" part).                  *)
(***************************************************************************)
None == "<None>"
NoEmit == [command |-> "", subcommand |-> "", finished |-> FALSE, tokens |-> <<>>]
CapEmit(sub, finished, tokens) ==
    [command |-> "CAP", subcommand |-> sub, finished |-> finished, tokens |-> tokens]

PlainItem(command, params) ==
    [line |-> build(command, params), emit |-> NoEmit, sasl |-> None]
CapItem(sub, finished, tokens, saslvalue) ==
    [line |-> build("CAP", <<"*", sub, join(tokens)>>),
     emit |-> CapEmit(sub, finished, tokens), sasl |-> saslvalue]

\* str.split(","): the pieces of s between its commas.
RECURSIVE splitFrom(_, _, _)
splitFrom(s, start, i) ==
    IF i > Len(s) THEN <<SubSeq(s, start, Len(s))>>
    ELSE IF SubSeq(s, i, i) = ","
    THEN <<SubSeq(s, start, i - 1)>> \o splitFrom(s, i + 1, i + 1)
    ELSE splitFrom(s, start, i + 1)

split(s) == splitFrom(s, 1, 1)

\* Capability names: the built-in list CAPS, CAP_SASL, and what may be queued.
CAPS     == <<"multi-prefix">>
CAP_SASL == "sasl"

\* Capability.available(caps): the capability's name when caps holds it.
available(c, caps) == IF c \in caps THEN c ELSE None

(***************************************************************************)
(* ircstates (Server.recv): what it keeps of the CAP lines it decodes.     *)
(* caps is [avail, temp, agreed]: available_caps (name -> value),          *)
(* the names collected over a multi-line LS, and agreed_caps.              *)
(***************************************************************************)
EmptyCaps == [c \in {} |-> None]

TokenValues(item) ==
    [c \in {item.emit.tokens[k] : k \in 1..Len(item.emit.tokens)} |->
        IF c = CAP_SASL THEN item.sasl ELSE None]

Update(f, g) ==
    [c \in DOMAIN f \cup DOMAIN g |-> IF c \in DOMAIN g THEN g[c] ELSE f[c]]

RecvItem(caps, item) ==
    LET e == item.emit
        toks == {e.tokens[k] : k \in 1..Len(e.tokens)}
    IN  IF e.command = "CAP" /\ e.subcommand = "LS"
        THEN LET t == Update(caps.temp, TokenValues(item))
             IN  IF e.finished
                 THEN [caps EXCEPT !.avail = t, !.temp = EmptyCaps]
                 ELSE [caps EXCEPT !.temp = t]
        ELSE IF e.command = "CAP" /\ e.subcommand = "ACK"
        THEN [caps EXCEPT !.agreed = @ \cup (toks \cap DOMAIN caps.avail)]
        ELSE caps

RECURSIVE RecvAll(_, _)
RecvAll(caps, items) ==
    IF items = <<>> THEN caps
    ELSE RecvAll(RecvItem(caps, Head(items)), Tail(items))

(***************************************************************************)
(* The wait registry.                                                      *)
(***************************************************************************)
RemoveAt(s, i) == SubSeq(s, 1, i - 1) \o SubSeq(s, i + 1, Len(s))

\* FirstMatch with the scan running from the tail of the list.
LastMatch(wf, line) ==
    LET hits == {i \in 1..Len(wf) : Match(wf[i].response, line)}
    IN  IF hits = {} THEN 0
        ELSE CHOOSE i \in hits : \A j \in hits : i >= j

\* The index of the entry the for loop of _on_read_line stops at (0: none).
FirstMatch(wf, line) ==
    LET hits == {i \in 1..Len(wf) : Match(wf[i].response, line)}
    IN  IF hits = {} THEN 0
        ELSE CHOOSE i \in hits : \A j \in hits : i <= j

\* OnReadLine without self._wait_for.pop(i).
OnReadLineNoPop(wf, fs, line) ==
    LET hits == {i \in 1..Len(wf) : Match(wf[i].response, line)}
    IN  IF hits = {} THEN [wf |-> wf, futs |-> fs]
        ELSE LET i == CHOOSE i \in hits : \A j \in hits : i <= j
             IN  [wf |-> wf, futs |-> [fs EXCEPT ![wf[i].future] = Append(@, line)]]

\* OnReadLine without future.set_result(line).
OnReadLineNoResult(wf, fs, line) ==
    LET hits == {i \in 1..Len(wf) : Match(wf[i].response, line)}
    IN  IF hits = {} THEN [wf |-> wf, futs |-> fs]
        ELSE LET i == CHOOSE i \in hits : \A j \in hits : i <= j
             IN  [wf |-> RemoveAt(wf, i), futs |-> fs]

\* _on_read_line's loop: pop the entry, set its future's result.
\* futs[f] is the sequence of results set on future f.
OnReadLine(wf, fs, line) ==
    LET i == FirstMatch(wf, line)
    IN  IF i = 0 THEN [wf |-> wf, futs |-> fs]
        ELSE [wf   |-> RemoveAt(wf, i),
              futs |-> [fs EXCEPT ![wf[i].future] = Append(@, line)]]

\* What one call of _on_read_line did, for the history variable last.
LastOf(wf, line) ==
    LET i == FirstMatch(wf, line)
    IN  [nhits |-> Cardinality({k \in 1..Len(wf) : Match(wf[k].response, line)}),
         fut   |-> IF i = 0 THEN 0 ELSE wf[i].future]

(***************************************************************************)
(* CAP negotiation.                                                        *)
(***************************************************************************)
\* list(self._cap_queue): a set iterates in an order the program does not
\* choose; any order is possible.
Orders(S) ==
    {o \in [1..Cardinality(S) -> S] : \A i, j \in 1..Cardinality(S) : i # j => o[i] # o[j]}

\* Matches without the filter: every wanted capability is requested.
MatchesUnfiltered(caps, avail) == caps

\* filter(bool, (c.available(available_caps) for c in caps))
RECURSIVE Matches(_, _)
Matches(caps, avail) ==
    IF caps = <<>> THEN <<>>
    ELSE LET m == available(Head(caps), avail)
         IN  (IF m # None THEN <<m>> ELSE <<>>) \o Matches(Tail(caps), avail)

\* cap_agreed answering for a capability that was never acknowledged.
cap_agreed_always(capability, agreed) == TRUE

\* cap_agreed(capability), given agreed_caps
cap_agreed(capability, agreed) == available(capability, agreed) # None

\* list.remove(x): drop the first occurrence.
Remove(s, x) ==
    LET i == CHOOSE k \in 1..Len(s) : s[k] = x /\ \A j \in 1..(k - 1) : s[j] # x
    IN  RemoveAt(s, i)

\* _cap_ack's loop: for cap in tokens: if cap in requested: requested.remove(cap)
RECURSIVE RemoveTokens(_, _)
RemoveTokens(requested, tokens) ==
    IF tokens = <<>> THEN requested
    ELSE LET cap == Head(tokens)
             has == \E k \in 1..Len(requested) : requested[k] = cap
         IN  RemoveTokens(IF has THEN Remove(requested, cap) ELSE requested,
                          Tail(tokens))

(***************************************************************************)
(* SASL.                                                                   *)
(***************************************************************************)
\* _common with the priority order read from its tail.
_common_last(server_mechs) ==
    LET ours == SASL_USERPASS_MECHANISMS
        hits == {i \in 1..Len(ours) :
                    \E k \in 1..Len(server_mechs) : server_mechs[k] = ours[i]}
    IN  IF hits = {} THEN None
        ELSE ours[CHOOSE i \in hits : \A j \in hits : i >= j]

\* sasl_userpass._common: the first of our mechanisms the server has;
\* None stands for raising SASLUnkownMechanismError.
_common(server_mechs) ==
    LET ours == SASL_USERPASS_MECHANISMS
        hits == {i \in 1..Len(ours) :
                    \E k \in 1..Len(server_mechs) : server_mechs[k] = ours[i]}
    IN  IF hits = {} THEN None
        ELSE ours[CHOOSE i \in hits : \A j \in hits : i <= j]

\* The account of the model.  NUL is how the model writes the character
\* "\0" of auth_text, which a string of the model cannot hold.
USERNAME == "alice"
PASSWORD == "secret"
NUL == "\\0"

\* str.encode("utf8"), for text of ASCII letters and digits: the bytes of
\* the characters.
DIGITS == "0123456789"
UPPER  == "ABCDEFGHIJKLMNOPQRSTUVWXYZ"
LOWER  == "abcdefghijklmnopqrstuvwxyz"
index(c, chars) ==
    IF \E k \in 1..Len(chars) : SubSeq(chars, k, k) = c
    THEN CHOOSE k \in 1..Len(chars) : SubSeq(chars, k, k) = c
    ELSE 0
ord(c) ==
    CASE index(c, DIGITS) > 0 -> 47 + index(c, DIGITS)
      [] index(c, UPPER) > 0  -> 64 + index(c, UPPER)
      [] index(c, LOWER) > 0  -> 96 + index(c, LOWER)

RECURSIVE encode(_)
encode(text) ==
    IF text = "" THEN <<>>
    ELSE IF Len(text) >= 2 /\ SubSeq(text, 1, 2) = NUL
    THEN <<0>> \o encode(SubSeq(text, 3, Len(text)))
    ELSE <<ord(SubSeq(text, 1, 1))>> \o encode(SubSeq(text, 2, Len(text)))

\* base64.b64encode(bytes).decode("ascii")
B64 == "ABCDEFGHIJKLMNOPQRSTUVWXYZabcdefghijklmnopqrstuvwxyz0123456789+/"
b64char(n) == SubSeq(B64, n + 1, n + 1)

RECURSIVE b64bytes(_)
b64bytes(bytes) ==
    IF bytes = <<>> THEN ""
    ELSE LET n  == Len(bytes)
             b1 == bytes[1]
             b2 == IF n >= 2 THEN bytes[2] ELSE 0
             b3 == IF n >= 3 THEN bytes[3] ELSE 0
         IN  b64char(b1 \div 4)
             \o b64char((b1 % 4) * 16 + b2 \div 16)
             \o (IF n >= 2 THEN b64char((b2 % 16) * 4 + b3 \div 64) ELSE "=")
             \o (IF n >= 3 THEN b64char(b3 % 64) ELSE "=")
             \o (IF n > 3 THEN b64bytes(SubSeq(bytes, 4, n)) ELSE "")

\* b64encode leaving the text as it is.
b64encode_plain(text) == text

b64encode(text) == b64bytes(encode(text))

NoWait == Numerics({})
Returned(result) ==
    [pc |-> "idle", match |-> "", send |-> <<>>, wait |-> NoWait, result |-> result]
Awaiting(pc, match, line, wait) ==
    [pc |-> pc, match |-> match, send |-> <<line>>, wait |-> wait, result |-> ""]

\* The results a SASL entry point ends with: the three SASLResults it
\* returns, and the exceptions it raises.
Raises == {"SASLUnkownMechanismError", "KeyError"}

\* sasl_external / sasl_userpass from their first line to their first await.
SaslBegin(kind, avail) ==
    IF kind = "EXTERNAL"
    THEN Awaiting("ext1", "EXTERNAL", build("AUTHENTICATE", <<"EXTERNAL">>), AuthOrError)
    ELSE IF CAP_SASL \notin DOMAIN avail
    THEN Returned("KeyError")
    ELSE LET match == IF avail[CAP_SASL] # None
                      THEN _common(split(avail[CAP_SASL]))
                      ELSE SASL_USERPASS_MECHANISMS[1]
         IN  IF match = None
             THEN Returned("SASLUnkownMechanismError")
             ELSE Awaiting("up1", match, build("AUTHENTICATE", <<match>>), AuthOrError)

\* AuthPlus sending the PLAIN payload whatever the mechanism is.
AuthPlusAnyMechanism(match, line) ==
    IF line.command = "AUTHENTICATE" /\ line.params[1] = "+"
    THEN Awaiting("up2", match,
             build("AUTHENTICATE",
                   <<b64encode(USERNAME \o NUL \o USERNAME \o NUL \o PASSWORD)>>),
             SaslNumerics)
    ELSE Returned("FAILURE")

\* sasl_userpass from "if line.command == AUTHENTICATE and params[0] == +".
AuthPlus(match, line) ==
    IF line.command = "AUTHENTICATE" /\ line.params[1] = "+"
    THEN IF match = "PLAIN"
         THEN Awaiting("up2", match,
                  build("AUTHENTICATE",
                        <<b64encode(USERNAME \o NUL \o USERNAME \o NUL \o PASSWORD)>>),
                  SaslNumerics)
         ELSE Returned("FAILURE")
    ELSE Returned("FAILURE")

\* SaslStep giving up on every reply.
SaslStepFailure(c, line) == Returned("FAILURE")

\* SaslStep returning SUCCESS on every reply.
SaslStepSuccess(c, line) == Returned("SUCCESS")

\* A SASL flow from the line its await returned to its next await or its end.
SaslStep(c, line) ==
    CASE c.pc = "ext1" ->
            IF line.command = "907" THEN Returned("ALREADY")
            ELSE IF line.command = "908" THEN Returned("SASLUnkownMechanismError")
            ELSE IF line.command = "AUTHENTICATE" /\ line.params[1] = "+"
            THEN Awaiting("ext2", c.match, build("AUTHENTICATE", <<"+">>), SaslNumerics)
            ELSE Returned("FAILURE")
      [] c.pc = "ext2" ->
            IF line.command = "903" THEN Returned("SUCCESS") ELSE Returned("FAILURE")
      [] c.pc = "up1" ->
            IF line.command = "907" THEN Returned("ALREADY")
            ELSE IF line.command = "908"
            THEN LET match == _common(split(line.params[2]))
                 IN  IF match = None
                     THEN Returned("SASLUnkownMechanismError")
                     ELSE Awaiting("up908", match,
                                   build("AUTHENTICATE", <<match>>), AuthOnly)
            ELSE AuthPlus(c.match, line)
      [] c.pc = "up908" -> AuthPlus(c.match, line)
      [] c.pc = "up2" ->
            IF line.command = "903" THEN Returned("SUCCESS") ELSE Returned("FAILURE")

(***************************************************************************)
(* State.                                                                  *)
(***************************************************************************)
VARIABLES
    connected,        \* connect() has run
    params_sasl,      \* params.sasl: "NONE", or its mechanism
    _write_queue,     \* the heap of PriorityLines
    nsend,            \* number of send() calls made so far
    nappsend,         \* those of them made by the application
    wpc,              \* the write loop: "get" | "write"
    lines,            \* _write_lines' local list (the entries it took)
    wi,               \* how many of them are written
    wire,             \* the lines written to the stream, in order
    _cap_queue,       \* capabilities queued for the CAP REQ
    _requested_caps,  \* tokens awaiting ACK/NAK
    caps,             \* ircstates: [avail, temp, agreed]
    _wait_for,        \* the registry: a list of [response, future]
    futs,             \* futs[f]: the results set on future f, in order
    inbound,          \* lines the server sent that no read() returned yet
    nsent,            \* number of lines the server sent
    rl,               \* the read loop: "read" | "dispatch" | "await_emit" | "closed"
    pending,          \* lines _read_lines returned, not yet dispatched
    co,               \* the SASL flow of each task
    ls_done,          \* history: _cap_ls_done has run
    req_ever,         \* history: every token a CAP REQ was sent for
    empty_ls,         \* history: _cap_ls_done found nothing to request
    unanswered,       \* history: the tokens of the last CAP REQ that no CAP ACK
                      \* or NAK handed to _on_read_emit has named yet
    nstarted,         \* history: how many times _cap_ack has started a SASL flow
    last              \* history: how many entries of the registry the last line
                      \* dispatched matched, and the future it resolved (0: none)

qvars   == <<_write_queue, nsend>>
wvars   == <<wpc, lines, wi, wire>>
capvars == <<_cap_queue, _requested_caps, ls_done, req_ever, empty_ls>>
regvars == <<_wait_for, futs, last>>
rlvars  == <<rl, pending, unanswered, nstarted>>
srvvars == <<inbound, nsent>>
vars == <<connected, params_sasl, qvars, nappsend, wvars, capvars, caps,
          regvars, rlvars, srvvars, co>>

\* The tokens of a list, as a set.
Tokens(tokens) == {tokens[k] : k \in 1..Len(tokens)}

\* The tasks that may run a SASL flow: the event handler the read loop
\* awaits (_on_read_emit -> _cap_ack), and the application.
Tasks == {"emit", "app"}
Idle == [pc |-> "idle", match |-> "", fut |-> 0, result |-> "", tokens |-> <<>>]

\* No coroutine is in the middle of an uninterrupted stretch: the read loop
\* dispatches the lines of one read() without yielding.
Yielded == rl # "dispatch"

\* Server.send: put PriorityLine(priority, line) on the queue.
Enqueue(q, n, line, priority) ==
    heappush(q, [priority |-> priority, line |-> line, seq |-> n + 1])

\* Server.send, several calls in a row (no await between them suspends:
\* the queue is unbounded).
RECURSIVE EnqueueAll(_, _, _)
EnqueueAll(q, n, ls) ==
    IF ls = <<>> THEN q
    ELSE EnqueueAll(Enqueue(q, n, Head(ls), DEFAULT), n + 1, Tail(ls))

Init ==
    /\ connected = FALSE
    /\ params_sasl = "NONE"
    /\ _write_queue = <<>>
    /\ nsend = 0
    /\ nappsend = 0
    /\ wpc = "get"
    /\ lines = <<>>
    /\ wi = 0
    /\ wire = <<>>
    /\ _cap_queue = {}
    /\ _requested_caps = <<>>
    /\ caps = [avail |-> EmptyCaps, temp |-> EmptyCaps, agreed |-> {}]
    /\ _wait_for = <<>>
    /\ futs = <<>>
    /\ inbound = <<>>
    /\ nsent = 0
    /\ rl = "read"
    /\ pending = <<>>
    /\ co = [t \in Tasks |-> Idle]
    /\ ls_done = FALSE
    /\ req_ever = {}
    /\ empty_ls = FALSE
    /\ unanswered = {}
    /\ nstarted = 0
    /\ last = [nhits |-> 0, fut |-> 0]

(***************************************************************************)
(* The application and the write loop.                                     *)
(***************************************************************************)
\* The application calls send(line, priority).
Send(priority) ==
    /\ Yielded
    /\ nappsend < MaxSends
    /\ _write_queue' = Enqueue(_write_queue, nsend, build("PRIVMSG", <<"#c", "hi">>), priority)
    /\ nsend' = nsend + 1
    /\ nappsend' = nappsend + 1
    /\ UNCHANGED <<connected, params_sasl, wvars, capvars, caps, regvars, rlvars, srvvars, co>>

\* Server.connect: the registration handshake.
ConnectLines ==
    << build("CAP",  <<"LS">>),
       build("NICK", <<"nick">>),
       build("USER", <<"user", "0", "*", "real">>) >>

Connect(sasl) ==
    /\ ~connected
    /\ connected' = TRUE
    /\ params_sasl' = sasl
    /\ _write_queue' = EnqueueAll(_write_queue, nsend, ConnectLines)
    /\ nsend' = nsend + Len(ConnectLines)
    /\ UNCHANGED <<nappsend, wvars, capvars, caps, regvars, rlvars, srvvars, co>>

\* queue_capability(cap)
QueueCapability(cap) ==
    /\ Yielded
    /\ cap \notin _cap_queue
    /\ _cap_queue' = _cap_queue \cup {cap}
    /\ UNCHANGED <<connected, params_sasl, qvars, nappsend, wvars, _requested_caps,
                   ls_done, req_ever, empty_ls, caps, regvars, rlvars, srvvars, co>>

\* _write_lines, up to its first throttle: take 1 to 5 entries.
WriteGet ==
    /\ Yielded
    /\ connected
    /\ wpc = "get"
    /\ _write_queue # <<>>
    /\ LET got == TakeLines(<<>>, _write_queue)
       IN  /\ lines' = got[1]
           /\ _write_queue' = got[2]
    /\ wi' = 0
    /\ wpc' = "write"
    /\ UNCHANGED <<connected, params_sasl, nsend, nappsend, wire, capvars, caps,
                   regvars, rlvars, srvvars, co>>

\* _write_lines: one pass of "async with self.throttle: write(line)".
WriteOne ==
    /\ Yielded
    /\ wpc = "write"
    /\ wi < Len(lines)
    /\ wire' = Append(wire, lines[wi + 1].line)
    /\ wi' = wi + 1
    /\ UNCHANGED <<connected, params_sasl, qvars, nappsend, wpc, lines, capvars, caps,
                   regvars, rlvars, srvvars, co>>

\* _write_lines: drain() and return; the write loop calls it again.
WriteDrain ==
    /\ Yielded
    /\ wpc = "write"
    /\ wi = Len(lines)
    /\ wpc' = "get"
    /\ UNCHANGED <<connected, params_sasl, qvars, nappsend, lines, wi, wire, capvars,
                   caps, regvars, rlvars, srvvars, co>>

\* wait_for(response), called by the application.
WaitFor(response) ==
    /\ Yielded
    /\ Len(futs) < MaxWaits
    /\ futs' = Append(futs, <<>>)
    /\ _wait_for' = Append(_wait_for, [response |-> response, future |-> Len(futs) + 1])
    /\ UNCHANGED <<connected, params_sasl, qvars, nappsend, wvars, capvars, caps,
                   rlvars, srvvars, co, last>>

(***************************************************************************)
(* The server and the read loop.  The loop that calls _read_lines and then *)
(* _on_read_line and _on_read_emit for each line is the caller of this     *)
(* class: it dispatches each line to the registry and then to the event    *)
(* handlers, awaiting each handler.                                        *)
(***************************************************************************)
ServerSend(item) ==
    /\ connected
    /\ rl # "closed"
    /\ nsent < MaxInbound
    /\ inbound' = Append(inbound, item)
    /\ nsent' = nsent + 1
    /\ UNCHANGED <<connected, params_sasl, qvars, nappsend, wvars, capvars, caps,
                   regvars, rlvars, co>>

Min(a, b) == IF a < b THEN a ELSE b

\* _read_lines: reader.read(1024) returns some of the lines sent, and
\* self.recv (ircstates) decodes them all before any is dispatched.
ReadLines ==
    /\ connected
    /\ rl = "read"
    /\ inbound # <<>>
    /\ \E k \in 1..Min(MaxChunk, Len(inbound)) :
          /\ pending' = SubSeq(inbound, 1, k)
          /\ inbound' = SubSeq(inbound, k + 1, Len(inbound))
          /\ caps' = RecvAll(caps, SubSeq(inbound, 1, k))
    /\ rl' = "dispatch"
    /\ UNCHANGED <<connected, params_sasl, qvars, nappsend, wvars, capvars, regvars,
                   nsent, co, unanswered, nstarted>>

\* _read_lines at the end of the stream (EOF, a transport fault): the read
\* loop ends.  Nothing in Server touches _wait_for then.
ReadEOF ==
    /\ connected
    /\ rl = "read"
    /\ rl' = "closed"
    /\ UNCHANGED <<connected, params_sasl, qvars, nappsend, wvars, capvars, caps,
                   regvars, pending, unanswered, nstarted, srvvars, co>>

\* The read loop goes on to the next line, or back to _read_lines.
NextLine(rest) ==
    /\ pending' = rest
    /\ rl' = IF rest = <<>> THEN "read" ELSE "dispatch"

\* A read loop that would start the handler and go on without awaiting it.
SpawnHandler(rest) == NextLine(rest)

\* The read loop awaits _on_read_emit, which is suspended: no line is
\* dispatched and nothing is read until the handler returns.
AwaitHandler(rest) ==
    /\ pending' = rest
    /\ rl' = "await_emit"

\* A _cap_ack that would start its SASL flow without awaiting it and go on
\* to CAP END.
SendAtHandoffAndEnd(q, n, first) ==
    Enqueue(Enqueue(q, n, first, DEFAULT), n + 1, build("CAP", <<"END">>), DEFAULT)

\* What _cap_ack has handed to send() when it is suspended in its SASL
\* flow: the flow's first line.  The token loop and CAP END come after the
\* await of the flow.
SendAtHandoff(q, n, first) == Enqueue(q, n, first, DEFAULT)

\* _cap_ls_done, called with the queue q after n sends.
CapLsDone(q, n) ==
    \E order \in Orders(_cap_queue) :
        LET wanted  == CAPS \o order
                         \o (IF params_sasl # "NONE" THEN <<CAP_SASL>> ELSE <<>>)
            matches == Matches(wanted, DOMAIN caps.avail)
        IN  /\ _cap_queue' = {}
            /\ ls_done' = TRUE
            /\ IF matches # <<>>
               THEN /\ _requested_caps' = matches
                    /\ _write_queue' =
                          Enqueue(q, n, build("CAP", <<"REQ", join(matches)>>), DEFAULT)
                    /\ nsend' = n + 1
                    /\ req_ever' = req_ever \cup {matches[k] : k \in 1..Len(matches)}
                    /\ UNCHANGED empty_ls
               ELSE /\ _write_queue' = q
                    /\ nsend' = n
                    /\ empty_ls' = TRUE
                    /\ UNCHANGED <<_requested_caps, req_ever>>

\* _cap_ack from "for cap in (emit.tokens or [])" to its end.
CapAckTail(tokens, q, n) ==
    LET requested == RemoveTokens(_requested_caps, tokens)
    IN  /\ _requested_caps' = requested
        /\ IF requested = <<>>
           THEN /\ _write_queue' = Enqueue(q, n, build("CAP", <<"END">>), DEFAULT)
                /\ nsend' = n + 1
           ELSE /\ _write_queue' = q
                /\ nsend' = n
        /\ UNCHANGED <<_cap_queue, ls_done, req_ever, empty_ls>>

\* The condition of _cap_ack's first if, and of the two branches under it.
SaslWanted ==
    /\ params_sasl # "NONE"
    /\ cap_agreed(CAP_SASL, caps.agreed)
    /\ params_sasl \in {"USERPASS", "EXTERNAL"}

\* Which handler _on_read_emit calls for an emit.
HandlerOf(emit) ==
    IF emit.command = "CAP"
    THEN IF emit.subcommand = "LS" /\ emit.finished THEN "_cap_ls_done"
         ELSE IF emit.subcommand \in {"ACK", "NAK"} THEN "_cap_ack"
         ELSE "none"
    ELSE "none"

\* _on_read_line's if line.command == "PING"
QueueAfterLine(line) ==
    IF line.command = "PING"
    THEN Enqueue(_write_queue, nsend, build("PONG", line.params), DEFAULT)
    ELSE _write_queue
SendsAfterLine(line) == IF line.command = "PING" THEN nsend + 1 ELSE nsend

\* A line with no handler: _on_read_line only.
DispatchPlain ==
    /\ rl = "dispatch"
    /\ HandlerOf(Head(pending).emit) = "none"
    /\ LET line == Head(pending).line
           r    == OnReadLine(_wait_for, futs, line)
       IN  /\ _wait_for' = r.wf
           /\ futs' = r.futs
           /\ last' = LastOf(_wait_for, line)
           /\ _write_queue' = QueueAfterLine(line)
           /\ nsend' = SendsAfterLine(line)
    /\ NextLine(Tail(pending))
    /\ UNCHANGED <<connected, params_sasl, nappsend, wvars, capvars, caps, srvvars, co,
                   unanswered, nstarted>>

\* The last line of a CAP LS: _on_read_line, then _cap_ls_done.
DispatchCapLs ==
    /\ rl = "dispatch"
    /\ HandlerOf(Head(pending).emit) = "_cap_ls_done"
    /\ LET line == Head(pending).line
           r    == OnReadLine(_wait_for, futs, line)
       IN  /\ _wait_for' = r.wf
           /\ futs' = r.futs
           /\ last' = LastOf(_wait_for, line)
           /\ CapLsDone(QueueAfterLine(line), SendsAfterLine(line))
           /\ unanswered' = IF nsend' > SendsAfterLine(line)
                             THEN Tokens(_requested_caps') ELSE unanswered
    /\ UNCHANGED nstarted
    /\ NextLine(Tail(pending))
    /\ UNCHANGED <<connected, params_sasl, nappsend, wvars, caps, srvvars, co>>

\* CAP ACK / NAK, SASL not to be started: _on_read_line, then all of _cap_ack.
DispatchCapAck ==
    /\ rl = "dispatch"
    /\ HandlerOf(Head(pending).emit) = "_cap_ack"
    /\ ~SaslWanted
    /\ LET line == Head(pending).line
           r    == OnReadLine(_wait_for, futs, line)
       IN  /\ _wait_for' = r.wf
           /\ futs' = r.futs
           /\ last' = LastOf(_wait_for, line)
           /\ CapAckTail(Head(pending).emit.tokens,
                         QueueAfterLine(line), SendsAfterLine(line))
    /\ unanswered' = unanswered \ Tokens(Head(pending).emit.tokens)
    /\ UNCHANGED nstarted
    /\ NextLine(Tail(pending))
    /\ UNCHANGED <<connected, params_sasl, nappsend, wvars, caps, srvvars, co>>

\* CAP ACK / NAK, SASL to be started: _on_read_line, then _cap_ack up to the
\* first await of the SASL flow, on which the handler, and the read loop
\* that awaits the handler, are suspended.
DispatchCapAckSasl ==
    /\ rl = "dispatch"
    /\ HandlerOf(Head(pending).emit) = "_cap_ack"
    /\ SaslWanted
    /\ LET line == Head(pending).line
           r    == OnReadLine(_wait_for, futs, line)
           b    == SaslBegin(params_sasl, caps.avail)
       IN  /\ b.pc # "idle"
           /\ Len(futs) < MaxWaits
           /\ _write_queue' = SendAtHandoff(QueueAfterLine(line), SendsAfterLine(line),
                                            b.send[1])
           /\ nsend' = SendsAfterLine(line) + 1
           /\ futs' = Append(r.futs, <<>>)
           /\ last' = LastOf(_wait_for, line)
           /\ _wait_for' = Append(r.wf, [response |-> b.wait, future |-> Len(futs) + 1])
           /\ co' = [co EXCEPT !["emit"] =
                       [pc |-> b.pc, match |-> b.match, fut |-> Len(futs) + 1,
                        result |-> "", tokens |-> Head(pending).emit.tokens]]
    /\ unanswered' = unanswered \ Tokens(Head(pending).emit.tokens)
    /\ nstarted' = nstarted + 1
    /\ AwaitHandler(Tail(pending))
    /\ UNCHANGED <<connected, params_sasl, nappsend, wvars, capvars, caps, srvvars>>

\* CAP ACK / NAK, SASL to be started, and the SASL entry point raises before
\* it sends anything: the exception leaves _cap_ack and _on_read_emit.
DispatchCapAckRaise ==
    /\ rl = "dispatch"
    /\ HandlerOf(Head(pending).emit) = "_cap_ack"
    /\ SaslWanted
    /\ LET line == Head(pending).line
           r    == OnReadLine(_wait_for, futs, line)
           b    == SaslBegin(params_sasl, caps.avail)
       IN  /\ b.pc = "idle"
           /\ _wait_for' = r.wf
           /\ futs' = r.futs
           /\ last' = LastOf(_wait_for, line)
           /\ _write_queue' = QueueAfterLine(line)
           /\ nsend' = SendsAfterLine(line)
           /\ co' = [co EXCEPT !["emit"].result = b.result]
    /\ unanswered' = unanswered \ Tokens(Head(pending).emit.tokens)
    /\ UNCHANGED nstarted
    /\ NextLine(Tail(pending))
    /\ UNCHANGED <<connected, params_sasl, nappsend, wvars, capvars, caps, srvvars>>

\* The application calls sasl_external() or sasl_userpass(): up to its
\* first await.
CallSasl(kind) ==
    /\ Yielded
    /\ connected
    /\ co["app"].pc = "idle"
    /\ co["app"].result = ""
    /\ LET b == SaslBegin(kind, caps.avail)
       IN  IF b.pc = "idle"
           THEN /\ co' = [co EXCEPT !["app"].result = b.result]
                /\ UNCHANGED <<qvars, regvars>>
           ELSE /\ Len(futs) < MaxWaits
                /\ _write_queue' = Enqueue(_write_queue, nsend, b.send[1], DEFAULT)
                /\ nsend' = nsend + 1
                /\ futs' = Append(futs, <<>>)
                /\ UNCHANGED last
                /\ _wait_for' = Append(_wait_for,
                                       [response |-> b.wait, future |-> Len(futs) + 1])
                /\ co' = [co EXCEPT !["app"] =
                            [pc |-> b.pc, match |-> b.match, fut |-> Len(futs) + 1,
                             result |-> "", tokens |-> <<>>]]
    /\ UNCHANGED <<connected, params_sasl, nappsend, wvars, capvars, caps, rlvars, srvvars>>

\* A SASL flow whose future has its result goes on to its next await.
ResumeAwait(t) ==
    /\ Yielded
    /\ co[t].pc # "idle"
    /\ futs[co[t].fut] # <<>>
    /\ LET o == SaslStep(co[t], futs[co[t].fut][1])
       IN  /\ o.pc # "idle"
           /\ Len(futs) < MaxWaits
           /\ _write_queue' = Enqueue(_write_queue, nsend, o.send[1], DEFAULT)
           /\ nsend' = nsend + 1
           /\ futs' = Append(futs, <<>>)
           /\ UNCHANGED last
           /\ _wait_for' = Append(_wait_for,
                                  [response |-> o.wait, future |-> Len(futs) + 1])
           /\ co' = [co EXCEPT ![t] = [@ EXCEPT !.pc = o.pc, !.match = o.match,
                                                !.fut = Len(futs) + 1]]
    /\ UNCHANGED <<connected, params_sasl, nappsend, wvars, capvars, caps, rlvars, srvvars>>

\* A SASL flow ends: it returns a SASLResult or raises.  In the handler,
\* a return lets _cap_ack go on to its end, and an exception leaves _cap_ack
\* and _on_read_emit; either way the read loop goes on to its next line.
ResumeEnd(t) ==
    /\ Yielded
    /\ co[t].pc # "idle"
    /\ futs[co[t].fut] # <<>>
    /\ LET o == SaslStep(co[t], futs[co[t].fut][1])
       IN  /\ o.pc = "idle"
           /\ co' = [co EXCEPT ![t] = [Idle EXCEPT !.result = o.result]]
           /\ IF t = "emit"
              THEN /\ IF o.result \in Raises
                      THEN UNCHANGED <<qvars, capvars>>
                      ELSE CapAckTail(co[t].tokens, _write_queue, nsend)
                   /\ NextLine(pending)
                   /\ UNCHANGED <<unanswered, nstarted>>
              ELSE UNCHANGED <<qvars, capvars, rlvars>>
    /\ UNCHANGED <<connected, params_sasl, nappsend, wvars, caps, regvars, srvvars>>

(***************************************************************************)
(* What the environment may do in the model.                               *)
(***************************************************************************)
SaslConfigs == {"NONE", "USERPASS", "EXTERNAL"}
Queueable   == {"a", "b", CAP_SASL}

CapItems ==
    { CapItem("LS", TRUE, <<>>, None),
      CapItem("LS", TRUE, <<"a">>, None),
      CapItem("LS", TRUE, <<"a", "sasl">>, None),
      CapItem("LS", TRUE, <<"sasl">>, "PLAIN"),
      CapItem("LS", FALSE, <<"sasl">>, "OAUTHBEARER"),
      CapItem("ACK", TRUE, <<"a">>, None),
      CapItem("ACK", TRUE, <<"sasl">>, None),
      CapItem("ACK", TRUE, <<"a", "sasl">>, None),
      CapItem("NAK", TRUE, <<"a">>, None) }

SaslReplies ==
    { PlainItem("AUTHENTICATE", <<"+">>),
      PlainItem("903", <<"nick", "SASL authentication successful">>) }

SaslItems ==
    SaslReplies \cup
    {
      PlainItem("904", <<"nick", "SASL authentication failed">>),
      PlainItem("907", <<"nick", "You have already authenticated">>),
      PlainItem("908", <<"nick", "PLAIN", "are available SASL mechanisms">>) }

OtherItems ==
    { PlainItem("PING", <<"irc.example">>) }

AppResponses == {AuthOrError, SaslNumerics}

\* CAP negotiation and SASL over one connection: the read side.
Next ==
    \/ \E sasl \in SaslConfigs : Connect(sasl)
    \/ \E cap \in Queueable : QueueCapability(cap)
    \/ \E item \in CapItems \cup SaslReplies : ServerSend(item)
    \/ ReadLines
    \/ DispatchPlain
    \/ DispatchCapLs
    \/ DispatchCapAck
    \/ DispatchCapAckSasl
    \/ DispatchCapAckRaise
    \/ \E kind \in {"EXTERNAL"} : CallSasl(kind)
    \/ \E t \in Tasks : ResumeAwait(t)
    \/ \E t \in Tasks : ResumeEnd(t)

Spec == Init /\ [][Next]_vars

\* The wait registry: waits of the application and of its SASL flows, the
\* lines that resolve them, and the end of the stream.
NextRegistry ==
    \/ \E sasl \in {"NONE"} : Connect(sasl)
    \/ \E response \in AppResponses : WaitFor(response)
    \/ \E item \in SaslItems \cup OtherItems : ServerSend(item)
    \/ ReadLines
    \/ ReadEOF
    \/ DispatchPlain
    \/ \E kind \in {"USERPASS", "EXTERNAL"} : CallSasl(kind)
    \/ \E t \in Tasks : ResumeAwait(t)
    \/ \E t \in Tasks : ResumeEnd(t)

SpecRegistry == Init /\ [][NextRegistry]_vars

\* The write side: send() calls and the write loop.
NextQueue ==
    \/ \E sasl \in {"NONE"} : Connect(sasl)
    \/ \E priority \in SendPriority : Send(priority)
    \/ WriteGet
    \/ WriteOne
    \/ WriteDrain

SpecQueue == Init /\ [][NextQueue]_vars

\* The SASL flows called by the application, against a server that
\* advertises sasl with or without a mechanism list.
SaslLsItems ==
    { CapItem("LS", TRUE, <<"sasl">>, None),
      CapItem("LS", TRUE, <<"sasl">>, "PLAIN"),
      CapItem("LS", TRUE, <<"sasl">>, "PLAIN,SCRAM-SHA-256"),
      CapItem("LS", TRUE, <<"sasl">>, "OAUTHBEARER") }

SaslOddItems ==
    { PlainItem("AUTHENTICATE", <<"abcd">>),
      PlainItem("908", <<"nick", "SCRAM-SHA-1,PLAIN", "are available SASL mechanisms">>) }

NextSasl ==
    \/ \E sasl \in {"NONE"} : Connect(sasl)
    \/ \E item \in SaslLsItems \cup SaslItems \cup SaslOddItems : ServerSend(item)
    \/ ReadLines
    \/ DispatchPlain
    \/ DispatchCapLs
    \/ \E kind \in {"USERPASS", "EXTERNAL"} : CallSasl(kind)
    \/ \E t \in Tasks : ResumeAwait(t)
    \/ \E t \in Tasks : ResumeEnd(t)

SpecSasl == Init /\ [][NextSasl]_vars

\* CAP negotiation with a server that answers: every coroutine of the event
\* loop that is ready to run is run (asyncio runs each ready task), and the
\* server goes on sending the replies of a SASL exchange.
CapEndItems ==
    { CapItem("LS", TRUE, <<"sasl">>, "PLAIN"),
      CapItem("LS", TRUE, <<"sasl">>, "OAUTHBEARER"),
      CapItem("ACK", TRUE, <<"sasl">>, None) }

NextCapEnd ==
    \/ \E sasl \in SaslConfigs : Connect(sasl)
    \/ \E item \in CapEndItems \cup SaslReplies : ServerSend(item)
    \/ ReadLines
    \/ DispatchPlain
    \/ DispatchCapLs
    \/ DispatchCapAck
    \/ DispatchCapAckSasl
    \/ DispatchCapAckRaise
    \/ \E kind \in {"EXTERNAL"} : CallSasl(kind)
    \/ \E t \in Tasks : ResumeAwait(t)
    \/ \E t \in Tasks : ResumeEnd(t)

FairCapEnd ==
    /\ WF_vars(ReadLines)
    /\ WF_vars(DispatchPlain)
    /\ WF_vars(DispatchCapLs)
    /\ WF_vars(DispatchCapAck)
    /\ WF_vars(DispatchCapAckSasl)
    /\ WF_vars(DispatchCapAckRaise)
    /\ \A t \in Tasks : WF_vars(ResumeAwait(t)) /\ WF_vars(ResumeEnd(t))
    /\ WF_vars(\E item \in SaslReplies : ServerSend(item))

SpecCapEnd == Init /\ [][NextCapEnd]_vars /\ FairCapEnd

(***************************************************************************)
(* Definitions the properties below share.                                 *)
(***************************************************************************)
CAP_END == build("CAP", <<"END">>)

\* How many times line l was handed to send() and is queued, taken by the
\* write loop, or written.
SentCount(l) ==
    Cardinality({k \in 1..Len(_write_queue) : _write_queue[k].line = l})
    + Cardinality({k \in (wi + 1)..Len(lines) : lines[k].line = l})
    + Cardinality({k \in 1..Len(wire) : wire[k] = l})

\* The entries this step put on the queue.
NewEntries ==
    {_write_queue'[k] : k \in {j \in 1..Len(_write_queue') : _write_queue'[j].seq > nsend}}

\* This step is the read loop dispatching the line at the head of pending.
DispatchStep == rl = "dispatch" /\ pending' # pending

Range(s) == {s[k] : k \in 1..Len(s)}

\* The handler's SASL flow is suspended on a future that has no result.
HandlerWaiting ==
    /\ co["emit"].pc # "idle"
    /\ futs[co["emit"].fut] = <<>>

\* The server has sent a line that the wait of the handler's SASL flow
\* matches, and no read() has returned it yet.
HandlerReplySent ==
    \E k \in 1..Len(_wait_for) :
        /\ _wait_for[k].future = co["emit"].fut
        /\ \E j \in 1..Len(inbound) : Match(_wait_for[k].response, inbound[j].line)

(***************************************************************************)
(* C1.  When SASL is started from CAP ACK/NAK dispatch and the server has  *)
(* sent the reply the flow waits for, the read loop is not stuck: it is    *)
(* reading or dispatching, so that the reply reaches _on_read_line.        *)
(***************************************************************************)
C1_ReadLoopDelivers ==
    (HandlerWaiting /\ HandlerReplySent) => rl \in {"read", "dispatch"}

\* Once the read loop awaits a handler suspended in SASL, it awaits forever:
\* no step of the program ends that wait.
C1_HandlerNeverResumes ==
    [][rl = "await_emit" => rl' = "await_emit"]_vars

(***************************************************************************)
(* C2.  CAP END is handed to send() at most once over a connection, and    *)
(* never before a CAP LS has completed.                                    *)
(***************************************************************************)
C2_CapEndExactlyOnce ==
    /\ SentCount(CAP_END) <= 1
    /\ SentCount(CAP_END) > 0 => ls_done

(***************************************************************************)
(* C3.  Each time the write loop takes lines out of the queue, it takes    *)
(* them in non-decreasing priority, lines of equal priority in the order   *)
(* they were enqueued, and before every line it leaves in the queue.       *)
(***************************************************************************)
Before(a, b) ==
    \/ a.priority < b.priority
    \/ a.priority = b.priority /\ a.seq < b.seq

C3_DrainOrder ==
    [][(wpc = "get" /\ wpc' = "write") =>
          /\ \A i, j \in 1..Len(lines') : i < j => Before(lines'[i], lines'[j])
          /\ \A i \in 1..Len(lines') : \A k \in 1..Len(_write_queue') :
                 Before(lines'[i], _write_queue'[k])]_vars

(***************************************************************************)
(* C4.  A dispatched line resolves the oldest entry of the registry that   *)
(* matches it and no other: every other entry stays, in order, and no step *)
(* sets the result of more than one future.                                *)
(***************************************************************************)
Hits(line) == {i \in 1..Len(_wait_for) : Match(_wait_for[i].response, line)}
Oldest(S) == CHOOSE i \in S : \A j \in S : i <= j

C4_OldestMatchOnly ==
    [][/\ Cardinality({f \in 1..Len(futs) : futs'[f] # futs[f]}) <= 1
       /\ DispatchStep =>
            LET line == Head(pending).line
                hits == Hits(line)
            IN  IF hits = {}
                THEN /\ \A f \in 1..Len(futs) : futs'[f] = futs[f]
                     /\ SubSeq(_wait_for', 1, Len(_wait_for)) = _wait_for
                ELSE /\ \A f \in 1..Len(futs) :
                          futs'[f] = IF f = _wait_for[Oldest(hits)].future
                                     THEN Append(futs[f], line) ELSE futs[f]
                     /\ SubSeq(_wait_for', 1, Len(_wait_for) - 1)
                          = RemoveAt(_wait_for, Oldest(hits))]_vars

\* The last line dispatched matched two entries or more; the oldest is
\* resolved and a later one that matches the line is still pending.
C4_LaterWaitStaysPending ==
    /\ last.nhits >= 2
    /\ last.fut # 0
    /\ Len(futs[last.fut]) = 1
    /\ \E k \in 1..Len(_wait_for) :
          /\ _wait_for[k].future > last.fut
          /\ Match(_wait_for[k].response, futs[last.fut][1])
          /\ futs[_wait_for[k].future] = <<>>

(***************************************************************************)
(* C5, as stated.  A dispatched line resolves, with that line, the future  *)
(* of every pending wait_for call whose matcher matches it, and the        *)
(* registry gets shorter by exactly one.                                   *)
(***************************************************************************)
C5_EveryMatchingWaitResolved ==
    [][DispatchStep =>
          LET line == Head(pending).line
          IN  \A i \in Hits(line) :
                 /\ futs'[_wait_for[i].future] = <<line>>
                 /\ Len(_wait_for') = Len(_wait_for) - 1]_vars

(***************************************************************************)
(* C5, amended.  A dispatched line resolves, with that line, the future of *)
(* the pending wait_for call whose matcher matches it when no call made    *)
(* earlier is pending with a matcher that matches it too; that call's      *)
(* entry leaves the registry, and of the entries that were pending exactly *)
(* one leaves.                                                             *)
(***************************************************************************)
C5_OldestMatchingWaitResolved ==
    [][DispatchStep =>
          LET line == Head(pending).line
              old  == {_wait_for[k].future : k \in 1..Len(_wait_for)}
              left == {_wait_for'[k].future : k \in 1..Len(_wait_for')}
          IN  \A i \in Hits(line) :
                 (\A j \in Hits(line) : i <= j) =>
                    /\ futs'[_wait_for[i].future] = <<line>>
                    /\ _wait_for[i].future \notin left
                    /\ Cardinality(old \ left) = 1]_vars

\* The last line dispatched resolved the future of a call that was not the
\* oldest pending one: the entry of an earlier call did not match and stays.
C5_ExactCallResolved ==
    /\ last.fut >= 2
    /\ Len(futs[last.fut]) = 1
    /\ \E k \in 1..Len(_wait_for) :
          /\ _wait_for[k].future < last.fut
          /\ ~Match(_wait_for[k].response, futs[last.fut][1])

(***************************************************************************)
(* C6.  No future has had its result set more than once, and no entry of   *)
(* the registry holds a future whose result is set.                        *)
(***************************************************************************)
C6_ResolvedOnceAndRemoved ==
    /\ \A f \in 1..Len(futs) : Len(futs[f]) <= 1
    /\ \A k \in 1..Len(_wait_for) : futs[_wait_for[k].future] = <<>>

\* Two futures are resolved and gone from the registry, which still holds
\* a pending entry.
C6_SomeResolvedSomePending ==
    /\ Cardinality({f \in 1..Len(futs) : Len(futs[f]) = 1}) >= 2
    /\ _wait_for # <<>>

(***************************************************************************)
(* C7.  After the stream has ended, no wait is pending: the registry is    *)
(* empty and every future was resolved, exactly once.                      *)
(***************************************************************************)
C7_TeardownFailsWaits ==
    rl = "closed" =>
        /\ _wait_for = <<>>
        /\ \A f \in 1..Len(futs) : Len(futs[f]) = 1

(***************************************************************************)
(* C8, as stated.  CAP ACK/NAK handling sends an AUTHENTICATE line only    *)
(* when SASL is configured, the SASL capability was in a CAP REQ that was  *)
(* sent, and the SASL capability is agreed.                                *)
(***************************************************************************)
HandlerStartsSasl ==
    /\ DispatchStep
    /\ \E e \in NewEntries : e.line.command = "AUTHENTICATE"

WantedCaps ==
    Range(CAPS) \cup _cap_queue
        \cup (IF params_sasl # "NONE" THEN {CAP_SASL} ELSE {})

NewReqs ==
    {e \in NewEntries : e.line.command = "CAP" /\ e.line.params[1] = "REQ"}

C10_NothingAfterEmptyLs ==
    [][empty_ls =>
          \A e \in NewEntries :
              ~(e.line.command = "CAP" /\ e.line.params[1] \in {"REQ", "END"})]_vars

(***************************************************************************)
(* Definitions the SASL properties share.                                  *)
(***************************************************************************)
\* This step is the application calling sasl_userpass.
UserpassCalled ==
    /\ co["app"].pc = "idle"
    /\ co["app"].result = ""
    /\ co'["app"] # co["app"]
    /\ co'["app"].pc # "ext1"

\* This step is the application calling sasl_external.
ExternalCalled ==
    /\ co["app"].pc = "idle"
    /\ co'["app"].pc = "ext1"

\* The lines this step handed to send().
NewLines == {e.line : e \in NewEntries}

\* The line of the n-th send() call, while it is in the queue.
SentLine(n) ==
    (CHOOSE e \in Range(_write_queue) : e.seq = n).line

\* The priority order the specification gives for USERPASS.
PriorityOrder == <<"SCRAM-SHA-512", "SCRAM-SHA-256", "SCRAM-SHA-1", "PLAIN">>

(***************************************************************************)
(* C11.  When available_caps["sasl"] has a value, a call of sasl_userpass  *)
(* sends exactly AUTHENTICATE <m>, m the first mechanism of the priority   *)
(* order that is in the comma-separated value, and waits for the reply;    *)
(* when the value holds none of them it raises SASLUnkownMechanismError,   *)
(* sends nothing and registers no wait.                                    *)
(***************************************************************************)
C11_FirstCommonMechanismSent ==
    [][(/\ UserpassCalled
        /\ CAP_SASL \in DOMAIN caps.avail
        /\ caps.avail[CAP_SASL] # None) =>
          LET served == Range(split(caps.avail[CAP_SASL]))
              common == {i \in 1..Len(PriorityOrder) : PriorityOrder[i] \in served}
          IN  IF common = {}
              THEN /\ co'["app"].result = "SASLUnkownMechanismError"
                   /\ co'["app"].pc = "idle"
                   /\ NewLines = {}
                   /\ nsend' = nsend
                   /\ _wait_for' = _wait_for
              ELSE /\ NewLines = {build("AUTHENTICATE", <<PriorityOrder[Oldest(common)]>>)}
                   /\ nsend' = nsend + 1
                   /\ Len(_wait_for') = Len(_wait_for) + 1
                   /\ co'["app"].result = ""]_vars

\* The server advertised sasl=PLAIN,SCRAM-SHA-256 and sasl_userpass has sent
\* AUTHENTICATE SCRAM-SHA-256.
C11_ScramPreferredToPlain ==
    /\ CAP_SASL \in DOMAIN caps.avail
    /\ caps.avail[CAP_SASL] = "PLAIN,SCRAM-SHA-256"
    /\ co["app"].pc = "up1"
    /\ \E e \in Range(_write_queue) :
          e.line = build("AUTHENTICATE", <<"SCRAM-SHA-256">>)

(***************************************************************************)
(* C12.  When available_caps["sasl"] is None (the server gave no mechanism *)
(* list), the one line a call of sasl_userpass sends before its first wait *)
(* is AUTHENTICATE PLAIN.                                                  *)
(***************************************************************************)
C12_PlainWhenNoValue ==
    [][(/\ UserpassCalled
        /\ CAP_SASL \in DOMAIN caps.avail
        /\ caps.avail[CAP_SASL] = None) =>
          NewLines = {build("AUTHENTICATE", <<"PLAIN">>)}]_vars

(***************************************************************************)
(* C13.  In a sasl_userpass run whose mechanism is PLAIN: resumed with     *)
(* AUTHENTICATE +, the flow sends exactly one line, AUTHENTICATE           *)
(* <base64 of alice NUL alice NUL secret>, and waits for 903 or 904;       *)
(* resumed from that wait it sends nothing and returns SUCCESS on 903 and  *)
(* FAILURE on 904.                                                         *)
(***************************************************************************)
AUTH_PLUS == build("AUTHENTICATE", <<"+">>)
PLAIN_PAYLOAD == build("AUTHENTICATE", <<"YWxpY2UAYWxpY2UAc2VjcmV0">>)

\* The application's flow is resumed by this step.
AppResumed == co["app"].pc # "idle" /\ co'["app"] # co["app"]

C13_PlainExchange ==
    [][/\ (/\ AppResumed
           /\ co["app"].pc \in {"up1", "up908"}
           /\ co["app"].match = "PLAIN"
           /\ futs[co["app"].fut] = <<AUTH_PLUS>>) =>
             /\ NewLines = {PLAIN_PAYLOAD}
             /\ nsend' = nsend + 1
             /\ co'["app"].pc = "up2"
             /\ _wait_for' = Append(_wait_for, [response |-> Numerics({"903", "904"}),
                                                future  |-> co'["app"].fut])
       /\ (AppResumed /\ co["app"].pc = "up2") =>
             /\ NewLines = {}
             /\ _wait_for' = _wait_for
             /\ co'["app"].pc = "idle"
             /\ futs[co["app"].fut][1].command \in {"903", "904"}
             /\ co'["app"].result =
                   IF futs[co["app"].fut][1].command = "903" THEN "SUCCESS" ELSE "FAILURE"]_vars

\* A PLAIN run has returned SUCCESS: the payload was sent after
\* AUTHENTICATE + and 903 came after it.
C13_PlainSucceeded ==
    /\ co["app"].result = "SUCCESS"
    /\ Len(futs) = 2
    /\ futs[1] = <<AUTH_PLUS>>
    /\ futs[2][1].command = "903"
    /\ \E e \in Range(_write_queue) : e.line = PLAIN_PAYLOAD

(***************************************************************************)
(* C14, as stated.  While a SASL entry point waits for the reply to an     *)
(* AUTHENTICATE <mechanism> line (its first attempt, or the one re-sent    *)
(* after a 908), a 907 that is dispatched resolves its wait, and resumed   *)
(* with the 907 it returns ALREADY and sends nothing.                      *)
(***************************************************************************)
Got907(pcs) ==
    /\ DispatchStep
    /\ Head(pending).line.command = "907"
    /\ co["app"].pc \in pcs
    /\ futs[co["app"].fut] = <<>>

Already907(pcs) ==
    (/\ AppResumed
     /\ co["app"].pc \in pcs
     /\ futs[co["app"].fut][1].command = "907") =>
        /\ co'["app"].pc = "idle"
        /\ co'["app"].result = "ALREADY"
        /\ NewLines = {}
        /\ _wait_for' = _wait_for

C14_AlreadyDoneOn907 ==
    [][/\ Got907({"ext1", "up1", "up908"}) =>
             futs'[co["app"].fut] = <<Head(pending).line>>
       /\ Already907({"ext1", "up1", "up908"})]_vars

(***************************************************************************)
(* C14, amended.  A 907 that answers the first AUTHENTICATE <mechanism>    *)
(* line of sasl_external or sasl_userpass resolves the flow's wait, and    *)
(* the flow returns ALREADY and sends nothing.  A 907 that answers the     *)
(* line sasl_userpass re-sent after a 908 does not match its wait, which   *)
(* stays pending: the flow returns nothing.                                *)
(***************************************************************************)
C14_AlreadyDoneOnFirst907 ==
    [][/\ Got907({"ext1", "up1"}) =>
             futs'[co["app"].fut] = <<Head(pending).line>>
       /\ Already907({"ext1", "up1"})
       /\ Got907({"up908"}) =>
             /\ futs' = futs
             /\ _wait_for' = _wait_for
             /\ co' = co]_vars

\* sasl_userpass has returned ALREADY: its first attempt was answered 907.
C14_UserpassAlready ==
    /\ co["app"].result = "ALREADY"
    /\ futs[1][1].command = "907"
    /\ \E e \in Range(_write_queue) :
          e.line = build("AUTHENTICATE", <<"SCRAM-SHA-512">>)

(***************************************************************************)
(* C15.  sasl_external sends AUTHENTICATE EXTERNAL and waits.  Resumed     *)
(* from that wait: 907 gives ALREADY, 908 raises SASLUnkownMechanismError, *)
(* AUTHENTICATE + makes it send AUTHENTICATE + and wait for 903 or 904,    *)
(* and any other line (904, AUTHENTICATE with another parameter) gives     *)
(* FAILURE.  Resumed from the second wait: 903 gives SUCCESS, 904 FAILURE. *)
(* SUCCESS is returned only when AUTHENTICATE + resolved the first wait    *)
(* and 903 the second.                                                     *)
(***************************************************************************)
C15_ExternalOutcomes ==
    [][/\ ExternalCalled =>
             /\ NewLines = {build("AUTHENTICATE", <<"EXTERNAL">>)}
             /\ nsend' = nsend + 1
             /\ _wait_for' = Append(_wait_for,
                    [response |-> Response("AUTHENTICATE", <<ParamAny>>, {"904", "907", "908"}),
                     future   |-> co'["app"].fut])
       /\ (AppResumed /\ co["app"].pc = "ext1") =>
             LET line == futs[co["app"].fut][1]
             IN  IF line = AUTH_PLUS
                 THEN /\ NewLines = {AUTH_PLUS}
                      /\ co'["app"].pc = "ext2"
                      /\ co'["app"].result = ""
                      /\ _wait_for' = Append(_wait_for,
                             [response |-> Numerics({"903", "904"}),
                              future   |-> co'["app"].fut])
                 ELSE /\ NewLines = {}
                      /\ _wait_for' = _wait_for
                      /\ co'["app"].pc = "idle"
                      /\ co'["app"].result =
                            CASE line.command = "907" -> "ALREADY"
                              [] line.command = "908" -> "SASLUnkownMechanismError"
                              [] OTHER                -> "FAILURE"
       /\ (AppResumed /\ co["app"].pc = "ext2") =>
             LET line == futs[co["app"].fut][1]
             IN  /\ NewLines = {}
                 /\ _wait_for' = _wait_for
                 /\ co'["app"].pc = "idle"
                 /\ co'["app"].result =
                       IF line.command = "903" THEN "SUCCESS" ELSE "FAILURE"
                 /\ co'["app"].result = "SUCCESS" =>
                       \E f \in 1..(co["app"].fut - 1) : futs[f] = <<AUTH_PLUS>>]_vars

\* sasl_external has ended in FAILURE on its second wait: it got
\* AUTHENTICATE +, sent AUTHENTICATE +, and got 904.
C15_ExternalFailedLate ==
    /\ co["app"].result = "FAILURE"
    /\ Len(futs) = 2
    /\ futs[1] = <<AUTH_PLUS>>
    /\ futs[2][1].command = "904"
    /\ \E e \in Range(_write_queue) : e.line = build("AUTHENTICATE", <<"EXTERNAL">>)
    /\ \E e \in Range(_write_queue) : e.line = AUTH_PLUS

(***************************************************************************)
(* C16.  When connect() made the first three send() calls of the           *)
(* connection, the first lines the write loop takes, and so the first      *)
(* three lines it writes, are CAP LS, NICK nick, USER user 0 * real, in    *)
(* that order.                                                             *)
(***************************************************************************)
ConnectWasFirst ==
    \A k \in 1..Len(ConnectLines) :
        \E e \in Range(_write_queue) : e.seq = k /\ e.line = ConnectLines[k]

C16_HandshakeWrittenFirst ==
    [][(/\ wpc = "get" /\ wpc' = "write"
        /\ wire = <<>>
        /\ ConnectWasFirst) =>
          /\ Len(lines') >= Len(ConnectLines)
          /\ \A k \in 1..Len(ConnectLines) : lines'[k].line = ConnectLines[k]]_vars

(***************************************************************************)
(* C18.  In a sasl_userpass run whose mechanism is not PLAIN (a SCRAM      *)
(* variant), the flow resumed with AUTHENTICATE + sends nothing, registers *)
(* no wait and returns FAILURE; a sasl_userpass run returns SUCCESS only   *)
(* with the mechanism PLAIN.                                               *)
(***************************************************************************)
ScramVariants == {"SCRAM-SHA-512", "SCRAM-SHA-256", "SCRAM-SHA-1"}

C18_ScramFails ==
    [][/\ (/\ AppResumed
           /\ co["app"].pc \in {"up1", "up908"}
           /\ co["app"].match \in ScramVariants
           /\ futs[co["app"].fut] = <<AUTH_PLUS>>) =>
             /\ NewLines = {}
             /\ nsend' = nsend
             /\ _wait_for' = _wait_for
             /\ futs' = futs
             /\ co'["app"].pc = "idle"
             /\ co'["app"].result = "FAILURE"
       /\ (/\ AppResumed
           /\ co["app"].pc \in {"up1", "up908", "up2"}
           /\ co'["app"].result = "SUCCESS") =>
             co["app"].match = "PLAIN"]_vars

\* The server advertised sasl=PLAIN,SCRAM-SHA-256, answered AUTHENTICATE
\* SCRAM-SHA-256 with AUTHENTICATE +, and the flow has returned FAILURE
\* having sent nothing more.
C18_ScramRunFailed ==
    /\ co["app"].result = "FAILURE"
    /\ futs = << <<AUTH_PLUS>> >>
    /\ \E e \in Range(_write_queue) :
          e.seq = nsend /\ e.line = build("AUTHENTICATE", <<"SCRAM-SHA-256">>)

(***************************************************************************)
(* C17.  Once a CAP REQ has been sent and CAP ACK/NAK lines naming every   *)
(* token of it have reached the handler, CAP END is eventually handed to   *)
(* send(), whether or not a SASL flow was started for one of those lines   *)
(* and whatever that flow's outcome.                                       *)
(***************************************************************************)
AllAnswered == req_ever # {} /\ unanswered = {}

C17_CapEndEventually == AllAnswered ~> (SentCount(CAP_END) > 0)

AckOrNak(item) ==
    /\ item.line.command = "CAP"
    /\ item.emit.subcommand \in {"ACK", "NAK"}

=============================================================================
